---- MODULE Spec2Model ----
(***************************************************************************)
(* A model of notion-docs/scripts/update.ts: the batch job that fetches    *)
(* FAQ entries and glossary definitions, builds the LinkableTerms table,   *)
(* renders both fragments and writes the two partial files.                *)
(*                                                                         *)
(* Strings are sequences of characters, a character being a one-element    *)
(* string; "LDQ" and "RDQ" stand for the curly quotes U+201C and U+201D,   *)
(* "NL" for a line feed.                                                   *)
(***************************************************************************)
EXTENDS Integers, Sequences, FiniteSets, TLC

\* ------------------------------------------------------------------ bounds
\* The longest FAQ list and the longest definition list a fetch returns.
MaxFaqs == 2
MaxDefs == 2

\* ------------------------------------------------------------- characters
LowerCase == <<"a","b","c","d","e","f","g","h","i","j","k","l","m",
               "n","o","p","q","r","s","t","u","v","w","x","y","z">>
UpperCase == <<"A","B","C","D","E","F","G","H","I","J","K","L","M",
               "N","O","P","Q","R","S","T","U","V","W","X","Y","Z">>
Digits == <<"0","1","2","3","4","5","6","7","8","9">>

Range(s) == {s[k] : k \in DOMAIN s}
IndexOf(s, c) == CHOOSE k \in DOMAIN s : s[k] = c

IsUpper(c) == c \in Range(UpperCase)
IsLetter(c) == c \in Range(LowerCase) \cup Range(UpperCase)
IsDigit(c) == c \in Range(Digits)
IsSpace(c) == c \in {" ", "NL"}
ToLowerChar(c) == IF IsUpper(c) THEN LowerCase[IndexOf(UpperCase, c)] ELSE c

RECURSIVE Join(_, _)
Join(ss, sep) ==
    IF ss = <<>> THEN <<>>
    ELSE IF Len(ss) = 1 THEN ss[1]
    ELSE ss[1] \o sep \o Join(Tail(ss), sep)

\* ------------------------------------------------------------ data model
\* The validity outcomes (format.ts, DefinitionValidity): a closed set, of
\* which exactly one is Valid.
Valid == "Valid"
DefinitionValidity == {Valid, "InvalidA", "InvalidB"}

\* A rich-text span that mentions no page.
NoRef == "none"

\* One rich-text span: its text, whether it is bold, the page it mentions.
Span(text, bold, ref) == [text |-> text, bold |-> bold, ref |-> ref]

\* linkableTerms[...].page, the page every glossary link points to.
GlossaryPage ==
    <<".",".","/","d","a","o","-","g","l","o","s","s","a","r","y",".","m","d">>

\* --------------------------------------- ./format (imported by update.ts)
StraightQuote(c) == IF c \in {"LDQ", "RDQ"} THEN "\"" ELSE c

\* stripCurlyQuotes: curly quotes become straight quotes.
stripCurlyQuotes(s) == [k \in DOMAIN s |-> StraightQuote(s[k])]

\* Whether a span is rendered as a link: it mentions a page that the table
\* holds with validity Valid.
IsLinked(span, linkableTerms) ==
    /\ span.ref # NoRef
    /\ span.ref \in DOMAIN linkableTerms
    /\ linkableTerms[span.ref].valid = Valid

renderSpan(span, linkableTerms) ==
    LET quoted == stripCurlyQuotes(span.text)
        styled == IF span.bold THEN <<"*","*">> \o quoted \o <<"*","*">>
                  ELSE quoted
    IN  IF IsLinked(span, linkableTerms)
        THEN <<"[">> \o styled \o <<"]","(">>
             \o linkableTerms[span.ref].page \o <<"#">>
             \o linkableTerms[span.ref].anchor \o <<")">>
        ELSE styled

RECURSIVE renderRichTexts(_, _)
\* renderRichTexts: the spans rendered one after the other.
renderRichTexts(richTexts, linkableTerms) ==
    IF richTexts = <<>> THEN <<>>
    ELSE renderSpan(Head(richTexts), linkableTerms)
         \o renderRichTexts(Tail(richTexts), linkableTerms)

RECURSIVE renderBlockList(_, _)
renderBlockList(blocks, linkableTerms) ==
    IF blocks = <<>> THEN <<>>
    ELSE <<renderRichTexts(Head(blocks), linkableTerms)>>
         \o renderBlockList(Tail(blocks), linkableTerms)

\* renderBlocks: every block's rich text rendered, the blocks joined by a
\* paragraph tag and a line feed.
renderBlocks(blocks, linkableTerms) ==
    <<"<","p",">">> \o Join(renderBlockList(blocks, linkableTerms), <<"NL">>)

RECURSIVE PlainText(_)
\* The spans' text without formatting or links.
PlainText(richTexts) ==
    IF richTexts = <<>> THEN <<>>
    ELSE stripCurlyQuotes(Head(richTexts).text) \o PlainText(Tail(richTexts))

KeyChar(c) == IsLetter(c) \/ IsDigit(c) \/ IsSpace(c) \/ c \in {"$", "-", "(", ")"}

RECURSIVE Hyphenate(_, _)
\* Whitespace runs collapsed to one hyphen each; inRun: the previous
\* character was whitespace.
Hyphenate(s, inRun) ==
    IF s = <<>> THEN <<>>
    ELSE IF IsSpace(Head(s))
         THEN (IF inRun THEN <<>> ELSE <<"-">>) \o Hyphenate(Tail(s), TRUE)
         ELSE <<Head(s)>> \o Hyphenate(Tail(s), FALSE)

\* String.prototype.toLowerCase
ToLowerCase(s) == [k \in DOMAIN s |-> ToLowerChar(s[k])]

\* formatGlossaryTermKey: the term as plain text, the characters outside
\* letters, digits, whitespace, $, - and parentheses removed, lowercased,
\* whitespace runs turned into hyphens.
formatGlossaryTermKey(term, linkableTerms) ==
    Hyphenate(ToLowerCase(SelectSeq(PlainText(term), KeyChar)), FALSE)

\* validDefinitionToPublish: the classifier's outcome for the definition in
\* the project.
validDefinitionToPublish(def, project) == def.validity[project]

\* ------------------------------------------------------ JavaScript runtime
\* The root collation order of the characters a formatted term can hold:
\* whitespace, punctuation, symbols, currency, digits, letters.
CollationOrder ==
    <<"NL", " ", "-", "'", "(", ")", "&", "%", "$">> \o Digits \o LowerCase

PrimaryWeight(c) == IndexOf(CollationOrder, ToLowerChar(c))
TertiaryWeight(c) == IF IsUpper(c) THEN 1 ELSE 0

\* The string's weights on the level of its letters, and on that of case.
PrimaryWeights(s) == [k \in DOMAIN s |-> PrimaryWeight(s[k])]
TertiaryWeights(s) == [k \in DOMAIN s |-> TertiaryWeight(s[k])]

RECURSIVE CompareWeights(_, _)
\* Two weight sequences compared from the left: -1, 0 or 1.
CompareWeights(a, b) ==
    IF a = <<>> /\ b = <<>> THEN 0
    ELSE IF a = <<>> THEN -1
    ELSE IF b = <<>> THEN 1
    ELSE IF Head(a) < Head(b) THEN -1
    ELSE IF Head(a) > Head(b) THEN 1
    ELSE CompareWeights(Tail(a), Tail(b))

\* String.prototype.localeCompare with no locale and no options: the
\* strings' letters decide; only when these are equal does case decide,
\* lower case first.
localeCompare(a, b) ==
    LET primary == CompareWeights(PrimaryWeights(a), PrimaryWeights(b))
    IN  IF primary # 0 THEN primary
        ELSE CompareWeights(TertiaryWeights(a), TertiaryWeights(b))

\* The largest array index, 2^32 - 2, as a digit string.
MaxArrayIndex == <<"4","2","9","4","9","6","7","2","9","4">>

DigitValues(s) == [k \in DOMAIN s |-> IndexOf(Digits, s[k]) - 1]

\* Two canonical digit strings compared as numbers: -1, 0 or 1.
CompareNumeric(a, b) ==
    IF Len(a) < Len(b) THEN -1
    ELSE IF Len(a) > Len(b) THEN 1
    ELSE CompareWeights(DigitValues(a), DigitValues(b))

\* A comparator that ignores case.
CompareTermsIgnoringCase(a, b) ==
    CompareWeights(PrimaryWeights(a.term), PrimaryWeights(b.term))

\* The comparator of formatDefinitions' sort.
CompareTerms(a, b) == localeCompare(a.term, b.term)

\* A comparator that sorts descending.
CompareOrderDescending(question1, question2) == question2.order - question1.order

\* The comparator of organizeFAQ's sort.
CompareOrder(question1, question2) == question1.order - question2.order

\* The comparators: that of line 32, that of line 51, and the order of
\* array-index keys.
Compare(comparator, a, b) ==
    CASE comparator = "term"  -> CompareTerms(a, b)
      [] comparator = "order" -> CompareOrder(a, b)
      [] comparator = "index" -> CompareNumeric(a, b)

RECURSIVE InsertSorted(_, _, _)
\* x put into the sorted array before the first element that compares
\* greater than it.
InsertSorted(comparator, x, sorted) ==
    IF sorted = <<>> THEN <<x>>
    ELSE IF Compare(comparator, x, Head(sorted)) < 0 THEN <<x>> \o sorted
    ELSE <<Head(sorted)>> \o InsertSorted(comparator, x, Tail(sorted))

RECURSIVE ArraySortFrom(_, _, _)
ArraySortFrom(comparator, arr, sorted) ==
    IF arr = <<>> THEN sorted
    ELSE ArraySortFrom(comparator, Tail(arr),
                       InsertSorted(comparator, Head(arr), sorted))

\* Array.prototype.sort: a stable sort by the comparator.
ArraySort(comparator, arr) == ArraySortFrom(comparator, arr, <<>>)

\* Property names every object inherits from Object.prototype.
ObjectPrototypeKeys ==
    { <<"c","o","n","s","t","r","u","c","t","o","r">>,
      <<"t","o","S","t","r","i","n","g">>,
      <<"v","a","l","u","e","O","f">> }

\* A property name that is an array index: a canonical digit string of at
\* most 2^32 - 2.
IsArrayIndex(key) ==
    /\ key # <<>>
    /\ \A k \in DOMAIN key : IsDigit(key[k])
    /\ Len(key) = 1 \/ key[1] # "0"
    /\ CompareNumeric(key, MaxArrayIndex) <= 0

\* An empty object: its own keys in creation order, and their values.
EmptyObject == [keys |-> <<>>, vals |-> <<>>]

HasOwn(obj, key) == key \in Range(obj.keys)

\* !obj[key] is false: the key is the object's own (its value an array) or
\* is found on Object.prototype.
IsTruthyProperty(obj, key) == HasOwn(obj, key) \/ key \in ObjectPrototypeKeys

SetProperty(obj, key, val) ==
    IF HasOwn(obj, key) THEN [obj EXCEPT !.vals[key] = val]
    ELSE [keys |-> Append(obj.keys, key), vals |-> obj.vals @@ (key :> val)]

\* The keys a for-in loop visits: the array indices in ascending numeric
\* order, then the other keys in creation order.
ForInKeys(obj) ==
    ArraySort("index", SelectSeq(obj.keys, IsArrayIndex))
    \o SelectSeq(obj.keys, LAMBDA k : ~IsArrayIndex(k))

\* ------------------------------------------------------------- update.ts
\* A character the term's replace() keeps: a letter, a digit, whitespace,
\* one of the range "$" to "(" (that is $ % & ' and the opening
\* parenthesis), ")" or "-".
TermChar(c) ==
    IsLetter(c) \/ IsDigit(c) \/ IsSpace(c)
      \/ c \in {"$", "%", "&", "'", "(", ")", "-"}

renderDefinition(def, linkableTerms) ==
    LET term == renderRichTexts(def.term, linkableTerms)
        formattedTerm == SelectSeq(term, TermChar)
        dashDelimitedTermKey == formatGlossaryTermKey(def.term, linkableTerms)
    IN  [ term       |-> formattedTerm,
          definition |-> renderRichTexts(def.definition, linkableTerms),
          key        |-> dashDelimitedTermKey ]

RECURSIVE renderDefinitionList(_, _)
renderDefinitionList(definitions, linkableTerms) ==
    IF definitions = <<>> THEN <<>>
    ELSE <<renderDefinition(Head(definitions), linkableTerms)>>
         \o renderDefinitionList(Tail(definitions), linkableTerms)

\* formatDefinitions: the heading entries of the glossary fragment, each a
\* term, its anchor key and its body, in the order they are emitted.
formatDefinitions(definitions, linkableTerms) ==
    LET renderedDefs == renderDefinitionList(definitions, linkableTerms)
    IN  ArraySort("term", renderedDefs)

\* One pass of organizeFAQ's first loop. sections.threw: sections[...].push
\* raised a TypeError, the value found being no array.
GroupQuestion(sections, question) ==
    LET section == question.section
        obj     == sections.obj
        created == IF ~IsTruthyProperty(obj, section)
                   THEN SetProperty(obj, section, <<>>)
                   ELSE obj
    IN  IF sections.threw THEN sections
        ELSE IF ~HasOwn(created, section)
        THEN [sections EXCEPT !.threw = TRUE]
        ELSE [ threw |-> FALSE,
               obj   |-> SetProperty(created, section,
                                     Append(created.vals[section], question)) ]

RECURSIVE GroupQuestions(_, _)
GroupQuestions(sections, questions) ==
    IF questions = <<>> THEN sections
    ELSE GroupQuestions(GroupQuestion(sections, Head(questions)), Tail(questions))

\* organizeFAQ: the questions grouped by section, every section's list
\* sorted by order; threw when the grouping raised.
organizeFAQ(questions) ==
    LET grouped == GroupQuestions([threw |-> FALSE, obj |-> EmptyObject], questions)
    IN  IF grouped.threw THEN grouped
        ELSE [ threw |-> FALSE,
               obj   |-> [ keys |-> grouped.obj.keys,
                           vals |-> [ k \in DOMAIN grouped.obj.vals |->
                                        ArraySort("order", grouped.obj.vals[k]) ] ] ]

\* A renderFAQ that never uses the blocks.
renderFAQPlainAnswer(faq, linkableTerms) ==
    << [tag |-> "dt", text |-> stripCurlyQuotes(faq.question)],
       [tag |-> "dd",
        text |-> stripCurlyQuotes(renderRichTexts(faq.answer, linkableTerms))] >>

\* renderFAQ: the question element and the answer element of one entry.
renderFAQ(faq, linkableTerms) ==
    LET plainAnswer    == renderRichTexts(faq.answer, linkableTerms)
        renderedAnswer == IF Len(faq.blocks) > 0
                          THEN renderBlocks(faq.blocks, linkableTerms)
                          ELSE plainAnswer
    IN  << [tag |-> "dt", text |-> stripCurlyQuotes(faq.question)],
           [tag |-> "dd", text |-> stripCurlyQuotes(renderedAnswer)] >>

RECURSIVE renderFAQs(_, _)
\* renderFAQs: the elements of a definition list, entry after entry.
renderFAQs(faqs, linkableTerms) ==
    IF faqs = <<>> THEN <<>>
    ELSE renderFAQ(Head(faqs), linkableTerms) \o renderFAQs(Tail(faqs), linkableTerms)

RECURSIVE renderSectionKeys(_, _, _)
renderSectionKeys(keys, obj, linkableTerms) ==
    IF keys = <<>> THEN <<>>
    ELSE << [ title |-> stripCurlyQuotes(Head(keys)),
              list  |-> renderFAQs(obj.vals[Head(keys)], linkableTerms) ] >>
         \o renderSectionKeys(Tail(keys), obj, linkableTerms)

\* renderSections: per section a title and its definition list, in for-in
\* order.
renderSections(sections, linkableTerms) ==
    renderSectionKeys(ForInKeys(sections), sections, linkableTerms)

\* An entry whose validity flag is Valid whatever the classification.
LinkableTermAlwaysValid(definition, linkableTerms, governanceProject) ==
    [ text      |-> renderRichTexts(definition.term, linkableTerms),
      anchor    |-> formatGlossaryTermKey(definition.term, linkableTerms),
      page      |-> GlossaryPage,
      valid     |-> Valid,
      notionURL |-> definition.url ]

\* The linkableTerms entry main stores for a definition.
LinkableTerm(definition, linkableTerms, governanceProject) ==
    [ text      |-> renderRichTexts(definition.term, linkableTerms),
      anchor    |-> formatGlossaryTermKey(definition.term, linkableTerms),
      page      |-> GlossaryPage,
      valid     |-> validDefinitionToPublish(definition, governanceProject),
      notionURL |-> definition.url ]

\* A filter that only leaves out one of the invalid outcomes.
IsPublishedUnlessInvalidA(def, governanceProject) ==
    validDefinitionToPublish(def, governanceProject) # "InvalidA"

\* main's filter: the definitions classified exactly as Valid.
IsPublished(def, governanceProject) ==
    validDefinitionToPublish(def, governanceProject) = Valid

publishedDefinitions(definitions, governanceProject) ==
    SelectSeq(definitions, LAMBDA def : IsPublished(def, governanceProject))

\* ------------------------------------------------- the remote content source
\* The project lookupProject finds.
GovernanceDocs == "Governance docs"

Text(text) == Span(text, FALSE, NoRef)
Mention(text, ref) == Span(text, FALSE, ref)

Definition(pageId, term, definition, validity) ==
    [ pageId     |-> pageId,
      term       |-> term,
      definition |-> definition,
      url        |-> <<"n","o","t","i","o","n","/">> \o <<pageId>>,
      validity   |-> [project \in {GovernanceDocs} |-> validity] ]

\* The definition pages of the content source. A fetch returns some of them
\* in some order; no two share a pageId.
DefinitionPages ==
    { Definition("p1", <<Text(<<"Q","u","o","r","u","m">>)>>,
                 <<Text(<<"o","f"," ">>), Mention(<<"B","L","D">>, "p3")>>,
                 Valid),
      Definition("p2", <<Text(<<"q","u","o","r","u","m">>)>>,
                 <<Mention(<<"Q">>, "p1")>>,
                 Valid),
      Definition("p3", <<Text(<<"B","L","D">>)>>,
                 <<Text(<<"LDQ","t","o","k","e","n","RDQ">>)>>,
                 "InvalidA"),
      Definition("p4", <<Text(<<"Q","u","o","r","u","m">>),
                         Span(<<"?">>, TRUE, "p2")>>,
                 <<Mention(<<"p","a","y">>, "p5")>>,
                 Valid),
      Definition("p5", <<Text(<<"a"," "," ","b">>)>>,
                 <<Text(<<"x">>)>>,
                 "InvalidB") }

FAQ(section, order, question, answer, blocks) ==
    [ section  |-> section,
      order    |-> order,
      question |-> question,
      answer   |-> answer,
      blocks   |-> blocks ]

Voting == <<"V","o","t","i","n","g">>
Rewards == <<"R","e","w","a","r","d","s">>

\* The FAQ pages of the content source.
FAQPages ==
    { FAQ(Voting, 2, <<"H","o","w","?">>,
          <<Text(<<"s","e","e"," ">>), Mention(<<"q">>, "p1")>>, <<>>),
      FAQ(Voting, 1, <<"LDQ","W","h","y","RDQ">>,
          <<Text(<<"n","o">>)>>,
          << <<Mention(<<"B","L","D">>, "p3")>>, <<Mention(<<"q">>, "p2")>> >>),
      FAQ(Voting, 2, <<"W","h","o","?">>,
          <<Mention(<<"B","L","D">>, "p3")>>, <<>>),
      FAQ(Rewards, 5, <<"W","h","e","n","?">>,
          <<Text(<<"LDQ","s","o","o","n","RDQ">>)>>, <<>>),
      FAQ(<<"1","0">>, 1, <<"T","e","n","?">>,
          <<Text(<<"1","0">>)>>, <<>>),
      FAQ(<<"2">>, 1, <<"T","w","o","?">>,
          <<Mention(<<"a","b">>, "p5")>>, <<>>),
      FAQ(<<"c","o","n","s","t","r","u","c","t","o","r">>, 1, <<"N","e","w","?">>,
          <<Text(<<"n","e","w">>)>>, <<>>) }

\* The sequences of at most n distinct elements of S.
RECURSIVE Arrangements(_, _)
Arrangements(S, n) ==
    IF n = 0 THEN {<<>>}
    ELSE LET shorter == Arrangements(S, n - 1)
         IN  shorter \cup
             UNION { { Append(a, x) : x \in S \ Range(a) } : a \in shorter }

\* ------------------------------------------------------------------ state
VARIABLES
    pc,                 \* where main stands; "rejected": its promise rejected
    governanceProject,  \* lookupProject's result
    faqs,               \* lookupProjectFAQ's result
    definitions,        \* lookupProjectDefinitions' result
    linkableTerms,      \* the table, pageId -> entry
    cursor,             \* the definition the for-of loop of main visits next
    sections,           \* organizeFAQ's result
    sectionsHTML,       \* renderSections' result
    definitionsHTML,    \* formatDefinitions' result
    glossaryPartial,    \* ../docs/partials/_glossary-partial.md
    faqPartial,         \* ../docs/partials/_faq-partial.md
    error,              \* what main threw
    stderr,             \* what console.error printed
    exitCode,           \* process.exitCode, the status the process ends with
    renderCalls         \* the renderRichTexts and formatGlossaryTermKey calls
                        \* made so far: the line, and the pageIds the table
                        \* they received held

vars == << pc, governanceProject, faqs, definitions, linkableTerms, cursor,
           sections, sectionsHTML, definitionsHTML, glossaryPartial, faqPartial,
           error, stderr, exitCode, renderCalls >>

NoError == "none"

\* What main can throw.
FetchErrors == {"lookupProject", "lookupProjectFAQ", "lookupProjectDefinitions"}
OrganizeError == "TypeError: sections[question.section].push is not a function"
WriteErrors == {"writeFileSync: glossary partial", "writeFileSync: FAQ partial"}

\* A file as an earlier run left it.
PreviousFile == [state |-> "previous", content |-> <<>>]
WrittenFile(content) == [state |-> "written", content |-> content]
\* A file a failed write may leave behind: untouched, or opened and emptied.
FailedWrite(file) == {file, [state |-> "clobbered", content |-> <<>>]}

Init ==
    /\ pc = "lookupProject"
    /\ governanceProject = "unset"
    /\ faqs = <<>>
    /\ definitions = <<>>
    /\ linkableTerms = <<>>
    /\ cursor = 1
    /\ sections = EmptyObject
    /\ sectionsHTML = <<>>
    /\ definitionsHTML = <<>>
    /\ glossaryPartial = PreviousFile
    /\ faqPartial = PreviousFile
    /\ error = NoError
    /\ stderr = NoError
    /\ exitCode = 0
    /\ renderCalls = {}

\* main throws: its promise rejects and nothing after the throw runs.
Throw(err) ==
    /\ pc' = "rejected"
    /\ error' = err

Call(line, table) == [line |-> line, known |-> DOMAIN table]

\* line 82
LookupProject ==
    /\ pc = "lookupProject"
    /\ \/ /\ governanceProject' = GovernanceDocs
          /\ pc' = "lookupProjectFAQ"
          /\ UNCHANGED error
       \/ /\ Throw("lookupProject")
          /\ UNCHANGED governanceProject
    /\ UNCHANGED << faqs, definitions, linkableTerms, cursor, sections,
                    sectionsHTML, definitionsHTML, glossaryPartial, faqPartial,
                    stderr, exitCode, renderCalls >>

\* line 83
LookupProjectFAQ ==
    /\ pc = "lookupProjectFAQ"
    /\ \/ /\ faqs' \in Arrangements(FAQPages, MaxFaqs)
          /\ pc' = "lookupProjectDefinitions"
          /\ UNCHANGED error
       \/ /\ Throw("lookupProjectFAQ")
          /\ UNCHANGED faqs
    /\ UNCHANGED << governanceProject, definitions, linkableTerms, cursor,
                    sections, sectionsHTML, definitionsHTML, glossaryPartial,
                    faqPartial, stderr, exitCode, renderCalls >>

\* lines 84-85
LookupProjectDefinitions ==
    /\ pc = "lookupProjectDefinitions"
    /\ \/ /\ definitions' \in Arrangements(DefinitionPages, MaxDefs)
          /\ pc' = "buildLinkableTerms"
          /\ UNCHANGED error
       \/ /\ Throw("lookupProjectDefinitions")
          /\ UNCHANGED definitions
    /\ UNCHANGED << governanceProject, faqs, linkableTerms, cursor, sections,
                    sectionsHTML, definitionsHTML, glossaryPartial, faqPartial,
                    stderr, exitCode, renderCalls >>

\* lines 86-94: one pass of the loop, or its end
BuildLinkableTerms ==
    /\ pc = "buildLinkableTerms"
    /\ \/ /\ cursor <= Len(definitions)
          /\ LET definition == definitions[cursor]
             IN  /\ linkableTerms' =
                       (definition.pageId :>
                          LinkableTerm(definition, linkableTerms, governanceProject))
                       @@ linkableTerms
                 /\ renderCalls' = renderCalls \cup
                       {Call(88, linkableTerms), Call(89, linkableTerms)}
          /\ cursor' = cursor + 1
          /\ UNCHANGED pc
       \/ /\ cursor > Len(definitions)
          /\ pc' = "organizeFAQ"
          /\ UNCHANGED << linkableTerms, cursor, renderCalls >>
    /\ UNCHANGED << governanceProject, faqs, definitions, sections, sectionsHTML,
                    definitionsHTML, glossaryPartial, faqPartial, error, stderr,
                    exitCode >>

\* line 95
OrganizeFAQ ==
    /\ pc = "organizeFAQ"
    /\ LET organized == organizeFAQ(faqs)
       IN  \/ /\ ~organized.threw
              /\ sections' = organized.obj
              /\ pc' = "renderSections"
              /\ UNCHANGED error
           \/ /\ organized.threw
              /\ Throw(OrganizeError)
              /\ UNCHANGED sections
    /\ UNCHANGED << governanceProject, faqs, definitions, linkableTerms, cursor,
                    sectionsHTML, definitionsHTML, glossaryPartial, faqPartial,
                    stderr, exitCode, renderCalls >>

\* line 96
RenderSections ==
    /\ pc = "renderSections"
    /\ sectionsHTML' = renderSections(sections, linkableTerms)
    /\ renderCalls' = renderCalls \cup
          (IF faqs = <<>> THEN {} ELSE {Call(58, linkableTerms)})
    /\ pc' = "formatDefinitions"
    /\ UNCHANGED << governanceProject, faqs, definitions, linkableTerms, cursor,
                    sections, definitionsHTML, glossaryPartial, faqPartial,
                    error, stderr, exitCode >>

\* lines 97-98
FormatDefinitions ==
    /\ pc = "formatDefinitions"
    /\ LET published == publishedDefinitions(definitions, governanceProject)
       IN  /\ definitionsHTML' = formatDefinitions(published, linkableTerms)
           /\ renderCalls' = renderCalls \cup
                 (IF published = <<>> THEN {}
                  ELSE {Call(16, linkableTerms), Call(21, linkableTerms),
                        Call(24, linkableTerms)})
    /\ pc' = "writeGlossary"
    /\ UNCHANGED << governanceProject, faqs, definitions, linkableTerms, cursor,
                    sections, sectionsHTML, glossaryPartial, faqPartial, error,
                    stderr, exitCode >>

\* A line 99 that writes the glossary fragment to the FAQ partial's path.
WriteGlossaryToFAQPath ==
    /\ pc = "writeGlossary"
    /\ faqPartial' = WrittenFile(definitionsHTML)
    /\ pc' = "writeFAQ"
    /\ UNCHANGED << governanceProject, faqs, definitions, linkableTerms, cursor,
                    sections, sectionsHTML, definitionsHTML, glossaryPartial,
                    error, stderr, exitCode, renderCalls >>

\* line 99
WriteGlossary ==
    /\ pc = "writeGlossary"
    /\ \/ /\ glossaryPartial' = WrittenFile(definitionsHTML)
          /\ pc' = "writeFAQ"
          /\ UNCHANGED error
       \/ /\ glossaryPartial' \in FailedWrite(glossaryPartial)
          /\ Throw("writeFileSync: glossary partial")
    /\ UNCHANGED << governanceProject, faqs, definitions, linkableTerms, cursor,
                    sections, sectionsHTML, definitionsHTML, faqPartial, stderr,
                    exitCode, renderCalls >>

\* line 100, after which main's promise resolves
WriteFAQ ==
    /\ pc = "writeFAQ"
    /\ \/ /\ faqPartial' = WrittenFile(sectionsHTML)
          /\ pc' = "resolved"
          /\ UNCHANGED error
       \/ /\ faqPartial' \in FailedWrite(faqPartial)
          /\ Throw("writeFileSync: FAQ partial")
    /\ UNCHANGED << governanceProject, faqs, definitions, linkableTerms, cursor,
                    sections, sectionsHTML, definitionsHTML, glossaryPartial,
                    stderr, exitCode, renderCalls >>

\* line 104: .then(() => process.exit(0))
Exit ==
    /\ pc = "resolved"
    /\ exitCode' = 0
    /\ pc' = "exited"
    /\ UNCHANGED << governanceProject, faqs, definitions, linkableTerms, cursor,
                    sections, sectionsHTML, definitionsHTML, glossaryPartial,
                    faqPartial, error, stderr, renderCalls >>

\* A catch handler that prints the error and leaves process.exitCode unset.
CatchWithoutExitCode ==
    /\ pc = "rejected"
    /\ stderr' = error
    /\ pc' = "exited"
    /\ UNCHANGED << governanceProject, faqs, definitions, linkableTerms, cursor,
                    sections, sectionsHTML, definitionsHTML, glossaryPartial,
                    faqPartial, error, exitCode, renderCalls >>

\* lines 105-108: the error printed, process.exitCode set, and the process
\* ends with it
Catch ==
    /\ pc = "rejected"
    /\ stderr' = error
    /\ exitCode' = 1
    /\ pc' = "exited"
    /\ UNCHANGED << governanceProject, faqs, definitions, linkableTerms, cursor,
                    sections, sectionsHTML, definitionsHTML, glossaryPartial,
                    faqPartial, error, renderCalls >>

Next ==
    \/ LookupProject
    \/ LookupProjectFAQ
    \/ LookupProjectDefinitions
    \/ BuildLinkableTerms
    \/ OrganizeFAQ
    \/ RenderSections
    \/ FormatDefinitions
    \/ WriteGlossary
    \/ WriteFAQ
    \/ Exit
    \/ Catch

Spec == Init /\ [][Next]_vars

\* --------------------------------------------------- how far main has come
\* organizeFAQ has just returned (line 95 is done).
Organized == pc = "renderSections"

\* renderSections has just returned (line 96 is done).
SectionsRendered == pc = "formatDefinitions"

\* formatDefinitions has just returned (line 98 is done); nothing main does
\* later changes a fragment.
Formatted == pc = "writeGlossary"

\* Both fragments are rendered: line 98 is done, now or earlier.
FragmentsRendered ==
    \/ pc \in {"writeGlossary", "writeFAQ", "resolved"}
    \/ pc \in {"rejected", "exited"} /\ error \in WriteErrors \cup {NoError}

\* The pageIds of the fetched definitions.
FetchedPageIds == {definitions[k].pageId : k \in DOMAIN definitions}

\* The fetched definitions the classifier calls Valid, in fetch order.
ValidDefinitions ==
    SelectSeq(definitions,
              LAMBDA def : validDefinitionToPublish(def, governanceProject) = Valid)

Occurrences(seq, x) == Cardinality({k \in DOMAIN seq : seq[k] = x})

\* ---------------------------------------------------------------- claims

\* C1: once formatDefinitions has returned, the glossary fragment holds one
\* heading entry per definition classified Valid and none for any other:
\* as many entries as Valid definitions, and every definition's rendering
\* occurs among the entries as often as Valid definitions render to it
\* (never, for a definition that is not Valid and renders to nothing a
\* Valid one renders to).
GlossaryHoldsExactlyTheValid ==
    Formatted =>
      /\ Len(definitionsHTML) = Len(ValidDefinitions)
      /\ \A k \in DOMAIN definitions :
           LET rendered == renderDefinition(definitions[k], linkableTerms)
           IN  Occurrences(definitionsHTML, rendered) =
                 Cardinality({ v \in DOMAIN ValidDefinitions :
                     renderDefinition(ValidDefinitions[v], linkableTerms) = rendered })

\* C1's case: a Valid and a not Valid definition were fetched, and the
\* fragment holds the one entry.
ValidAndInvalidFetched ==
    /\ Formatted
    /\ Len(definitions) = 2
    /\ Len(ValidDefinitions) = 1
    /\ Len(definitionsHTML) = 1

\* The case-insensitive comparison of two terms: their letters alone.
CaseInsensitiveCompare(a, b) ==
    CompareWeights(PrimaryWeights(a), PrimaryWeights(b))

\* The place in fetch order, among the Valid definitions, of the definition
\* an entry of the fragment renders.
SourceOf(entry) ==
    CHOOSE v \in DOMAIN ValidDefinitions :
        renderDefinition(ValidDefinitions[v], linkableTerms) = entry

\* C2 as stated: the entries are in case-insensitive order of their terms,
\* and two entries whose terms are equal but for case are in fetch order.
SortedCaseInsensitiveStable ==
    Formatted =>
      \A i, j \in DOMAIN definitionsHTML :
        i < j =>
          LET c == CaseInsensitiveCompare(definitionsHTML[i].term,
                                          definitionsHTML[j].term)
          IN  /\ c <= 0
              /\ c = 0 => SourceOf(definitionsHTML[i]) < SourceOf(definitionsHTML[j])

\* C2 amended: the entries are in case-insensitive order of their terms;
\* two entries whose terms differ only in case are in localeCompare's
\* order, lower case first, whatever the fetch order; two entries whose
\* terms are the same string are in fetch order.
SortedByLocaleCompareStable ==
    Formatted =>
      \A i, j \in DOMAIN definitionsHTML :
        i < j =>
          /\ CaseInsensitiveCompare(definitionsHTML[i].term,
                                    definitionsHTML[j].term) <= 0
          /\ localeCompare(definitionsHTML[i].term, definitionsHTML[j].term) <= 0
          /\ definitionsHTML[i].term = definitionsHTML[j].term
               => SourceOf(definitionsHTML[i]) < SourceOf(definitionsHTML[j])

\* C2's case: two entries whose terms differ only in case, emitted against
\* their fetch order.
CaseVariantsReordered ==
    /\ Formatted
    /\ \E i, j \in DOMAIN definitionsHTML :
         /\ i < j
         /\ CaseInsensitiveCompare(definitionsHTML[i].term,
                                   definitionsHTML[j].term) = 0
         /\ definitionsHTML[i].term # definitionsHTML[j].term
         /\ SourceOf(definitionsHTML[i]) > SourceOf(definitionsHTML[j])

RECURSIVE FirstSeen(_, _)
\* The section names of the questions, each once, in the order of their
\* first appearance; seen: the names met so far.
FirstSeen(questions, seen) ==
    IF questions = <<>> THEN <<>>
    ELSE IF Head(questions).section \in seen
         THEN FirstSeen(Tail(questions), seen)
         ELSE <<Head(questions).section>>
              \o FirstSeen(Tail(questions), seen \cup {Head(questions).section})

\* The section headings of the FAQ fragment, in the order they are emitted.
SectionTitles == [k \in DOMAIN sectionsHTML |-> sectionsHTML[k].title]

\* C3 as stated: once renderSections has returned, the FAQ fragment lists
\* the section headings in the order in which each section name first
\* appears among the fetched entries, each once, whatever the names are.
SectionsInFirstSeenOrder ==
    SectionsRendered =>
      LET firstSeen == FirstSeen(faqs, {})
      IN  SectionTitles = [k \in DOMAIN firstSeen |-> stripCurlyQuotes(firstSeen[k])]

\* The place of a fetched FAQ entry in the fetched sequence.
InputIndex(question) == CHOOSE k \in DOMAIN faqs : faqs[k] = question

\* C4: once organizeFAQ has returned, every fetched entry's section has a
\* list, and the list of a section holds exactly the fetched entries of
\* that section, each once, in ascending order of their order field, the
\* entries of equal order in fetch order.
SectionListsSortedAndComplete ==
    Organized =>
      /\ \A k \in DOMAIN faqs : HasOwn(sections, faqs[k].section)
      /\ DOMAIN sections.vals = Range(sections.keys)
      /\ \A section \in DOMAIN sections.vals :
           LET list == sections.vals[section]
           IN  /\ \A i \in DOMAIN list :
                    list[i] \in Range(faqs) /\ list[i].section = section
               /\ \A k \in DOMAIN faqs :
                    faqs[k].section = section => Occurrences(list, faqs[k]) = 1
               /\ \A i, j \in DOMAIN list :
                    i < j =>
                      /\ list[i].order <= list[j].order
                      /\ list[i].order = list[j].order
                           => InputIndex(list[i]) < InputIndex(list[j])

\* C4's case: a section whose two entries were fetched in descending order
\* and are listed in ascending order.
SectionReordered ==
    /\ Organized
    /\ Len(faqs) = 2
    /\ faqs[1].section = faqs[2].section
    /\ faqs[1].order > faqs[2].order
    /\ sections.vals[faqs[1].section] = <<faqs[2], faqs[1]>>

\* C5 as stated: every renderRichTexts and formatGlossaryTermKey call
\* receives a table that holds the entry of every fetched definition.
RenderCallsSeeFullTable ==
    \A call \in renderCalls : call.known = FetchedPageIds

\* C6 as stated: once formatDefinitions has returned, no two heading
\* entries of the glossary fragment carry the same anchor key.
AnchorKeysUnique ==
    Formatted =>
      \A i, j \in DOMAIN definitionsHTML :
        i # j => definitionsHTML[i].key # definitionsHTML[j].key

\* Both partial files were written in this run.
BothWritten == glossaryPartial.state = "written" /\ faqPartial.state = "written"

\* C7, the end of a run: the process ends with status 0 exactly when
\* nothing failed, and then both partials were written in this run;
\* otherwise it ends with status 1 and the error is the one printed. A
\* failed write of the FAQ partial leaves the glossary partial written.
OutcomeAtExit ==
    /\ pc = "exited" =>
         /\ exitCode \in {0, 1}
         /\ exitCode = 0 <=> error = NoError
         /\ exitCode = 0 => BothWritten /\ stderr = NoError
         /\ exitCode = 1 => stderr = error
    /\ error = "writeFileSync: FAQ partial" =>
         glossaryPartial = WrittenFile(definitionsHTML)

\* C7, after a failure: the only step is the catch handler's, which prints
\* the error, sets status 1 and ends the process, and it runs no step of
\* main and touches no file; an ended process takes no step.
NothingRunsAfterFailure ==
    /\ pc = "rejected" =>
         /\ pc' = "exited"
         /\ stderr' = error
         /\ exitCode' = 1
         /\ UNCHANGED << governanceProject, faqs, definitions, linkableTerms,
                         cursor, sections, sectionsHTML, definitionsHTML,
                         glossaryPartial, faqPartial, error, renderCalls >>
    /\ pc = "exited" => UNCHANGED vars

\* C7: the orchestrator's run has the two outcomes above.
TwoOutcomes == []OutcomeAtExit /\ [][NothingRunsAfterFailure]_vars

\* C7's case: the FAQ partial's write failed after the glossary partial
\* was written, and the process has ended with status 1.
FailedAfterGlossaryWritten ==
    /\ pc = "exited"
    /\ error = "writeFileSync: FAQ partial"
    /\ stderr = error
    /\ exitCode = 1
    /\ glossaryPartial.state = "written"
    /\ faqPartial.state # "written"

\* The table is complete: main's loop over the definitions has ended.
TableBuilt ==
    \/ pc \in {"organizeFAQ", "renderSections", "formatDefinitions"}
    \/ FragmentsRendered
    \/ pc \in {"rejected", "exited"} /\ error = OrganizeError

\* The pageIds of the fetched definitions the classifier does not call Valid.
InvalidPageIds ==
    { definitions[k].pageId : k \in
        { n \in DOMAIN definitions :
            validDefinitionToPublish(definitions[n], governanceProject) # Valid } }

\* The rich text with its mentions of not Valid definitions taken out: what
\* is left is plain text there.
WithoutInvalidMentions(richTexts) ==
    [ k \in DOMAIN richTexts |->
        IF richTexts[k].ref \in InvalidPageIds
        THEN [richTexts[k] EXCEPT !.ref = NoRef]
        ELSE richTexts[k] ]

FAQWithoutInvalidMentions(faq) ==
    [ faq EXCEPT !.answer = WithoutInvalidMentions(@),
                 !.blocks = [b \in DOMAIN @ |-> WithoutInvalidMentions(@[b])] ]

DefinitionWithoutInvalidMentions(def) ==
    [ def EXCEPT !.term = WithoutInvalidMentions(@),
                 !.definition = WithoutInvalidMentions(@) ]

\* C8: the table's validity flag of every fetched definition is its
\* classification; a definition is left out of the glossary fragment exactly
\* when its flag is not Valid; and both fragments are what they would be had
\* no FAQ answer, block, term or body mentioned a not Valid definition: such
\* a mention is rendered as plain text, never as a link.
InvalidNeverPublishedNorLinked ==
    /\ TableBuilt =>
         \A k \in DOMAIN definitions :
           /\ definitions[k].pageId \in DOMAIN linkableTerms
           /\ linkableTerms[definitions[k].pageId].valid =
                validDefinitionToPublish(definitions[k], governanceProject)
    /\ Formatted =>
         \A k \in DOMAIN definitions :
           Occurrences(definitionsHTML,
                       renderDefinition(definitions[k], linkableTerms)) = 0
             <=> linkableTerms[definitions[k].pageId].valid # Valid
    /\ Formatted =>
         sectionsHTML =
           renderSections(
             organizeFAQ([k \in DOMAIN faqs |-> FAQWithoutInvalidMentions(faqs[k])]).obj,
             linkableTerms)
    /\ Formatted =>
         definitionsHTML =
           formatDefinitions(
             [ k \in DOMAIN ValidDefinitions |->
                 DefinitionWithoutInvalidMentions(ValidDefinitions[k]) ],
             linkableTerms)

\* C8's case: a fetched definition is not Valid, a fetched FAQ entry and a
\* published definition both mention it, and both fragments are rendered.
InvalidDefinitionMentioned ==
    /\ Formatted
    /\ \E k \in DOMAIN faqs : \E n \in DOMAIN faqs[k].answer :
         faqs[k].answer[n].ref \in InvalidPageIds
    /\ \E k \in DOMAIN ValidDefinitions : \E n \in DOMAIN ValidDefinitions[k].definition :
         ValidDefinitions[k].definition[n].ref \in InvalidPageIds

\* C9: once renderSections has returned, every section's definition list
\* holds, for each entry of the section in turn, one question element
\* followed by one answer element, the answer being the rendered blocks
\* when the entry has blocks and the rendered rich-text answer exactly when
\* it has none.
AnswerFromBlocksWhenPresent ==
    SectionsRendered =>
      \A s \in DOMAIN sectionsHTML :
        LET section == ForInKeys(sections)[s]
            entries == sections.vals[section]
            list    == sectionsHTML[s].list
        IN  /\ Len(list) = 2 * Len(entries)
            /\ \A e \in DOMAIN entries :
                 /\ list[2 * e - 1] =
                      [tag |-> "dt", text |-> stripCurlyQuotes(entries[e].question)]
                 /\ list[2 * e].tag = "dd"
                 /\ entries[e].blocks # <<>> =>
                      list[2 * e].text =
                        stripCurlyQuotes(renderBlocks(entries[e].blocks, linkableTerms))
                 /\ entries[e].blocks = <<>> =>
                      list[2 * e].text =
                        stripCurlyQuotes(renderRichTexts(entries[e].answer, linkableTerms))

\* C9's case: rendered entries with and without blocks.
BlocksAndPlainAnswersRendered ==
    /\ SectionsRendered
    /\ sectionsHTML # <<>>
    /\ \E k \in DOMAIN faqs : faqs[k].blocks # <<>>
    /\ \E k \in DOMAIN faqs : faqs[k].blocks = <<>>

\* C10: no partial file is touched before both fragments are rendered, so a
\* failed fetch or a failure while rendering leaves both as they were; the
\* FAQ partial is touched only with the glossary partial written; and the
\* partials hold the rendered fragments.
WritesFollowRendering ==
    /\ ~FragmentsRendered => glossaryPartial = PreviousFile /\ faqPartial = PreviousFile
    /\ error \in FetchErrors \cup {OrganizeError} =>
         glossaryPartial = PreviousFile /\ faqPartial = PreviousFile
    /\ faqPartial # PreviousFile => glossaryPartial = WrittenFile(definitionsHTML)
    /\ faqPartial.state = "written" => faqPartial = WrittenFile(sectionsHTML)

\* C10's case: organizeFAQ raised after entries were fetched, the process
\* has ended, and both partials are as the earlier run left them.
RenderFailureLeavesFiles ==
    /\ pc = "exited"
    /\ error = OrganizeError
    /\ faqs # <<>>
    /\ definitions # <<>>
    /\ glossaryPartial = PreviousFile
    /\ faqPartial = PreviousFile

====
